---- MODULE Spec2Model ----
(***************************************************************************)
(* Model of confusion-matrix-generator.py: one run of main() (argument     *)
(* check, file check, read_excel, count_classifiers,                       *)
(* write_excel_with_formulas) over a small file system.                    *)
(*                                                                         *)
(* Text is modelled character by character: a string is a TLA+ string,     *)
(* taken apart with SubSeq/Len and put together with \o.                   *)
(***************************************************************************)
EXTENDS Integers, Sequences, FiniteSets, TLC

VARIABLES pc, argv, input_file, output_file, frames, df, output_df,
          warnings, exit_code, previous_output

vars == <<pc, argv, input_file, output_file, frames, df, output_df,
          warnings, exit_code, previous_output>>

(***************************************************************************)
(* Characters and Python str methods                                       *)
(***************************************************************************)

\* The characters of the model, in code point order (Python compares
\* strings by code point).
CodePoints ==
    "\t ,.0123456789ABCDEFGHIJKLMNOPQRSTUVWXYZ_abcdefghijklmnopqrstuvwxyz"

UpperLetters == "ABCDEFGHIJKLMNOPQRSTUVWXYZ"

LowerLetters == "abcdefghijklmnopqrstuvwxyz"

Digits == "0123456789"

CharAt(s, i) == SubSeq(s, i, i)

CharsOf(s) == {CharAt(s, i) : i \in 1..Len(s)}

IndexIn(s, c) == CHOOSE i \in 1..Len(s) : CharAt(s, i) = c

OrdOf == [c \in CharsOf(CodePoints) |-> IndexIn(CodePoints, c)]

ord(c) == OrdOf[c]

\* str.isspace for one character
isspace(c) == c \in {" ", "\t"}

\* the characters of the regular expression class \w
WordChars ==
    CharsOf(UpperLetters) \cup CharsOf(LowerLetters) \cup CharsOf(Digits)
    \cup {"_"}

isword(c) == c \in WordChars

ToLower ==
    [c \in CharsOf(CodePoints) |->
        IF c \in CharsOf(UpperLetters)
        THEN CharAt(LowerLetters, IndexIn(UpperLetters, c)) ELSE c]

ToUpper ==
    [c \in CharsOf(CodePoints) |->
        IF c \in CharsOf(LowerLetters)
        THEN CharAt(UpperLetters, IndexIn(LowerLetters, c)) ELSE c]

lower_char(c) == ToLower[c]

upper_char(c) == ToUpper[c]

RECURSIVE str_lower(_)
str_lower(s) ==
    IF s = "" THEN ""
    ELSE lower_char(CharAt(s, 1)) \o str_lower(SubSeq(s, 2, Len(s)))

RECURSIVE str_upper(_)
str_upper(s) ==
    IF s = "" THEN ""
    ELSE upper_char(CharAt(s, 1)) \o str_upper(SubSeq(s, 2, Len(s)))

RECURSIVE str_lstrip(_)
str_lstrip(s) ==
    IF s = "" THEN ""
    ELSE IF isspace(CharAt(s, 1)) THEN str_lstrip(SubSeq(s, 2, Len(s)))
    ELSE s

RECURSIVE str_rstrip(_)
str_rstrip(s) ==
    IF s = "" THEN ""
    ELSE IF isspace(CharAt(s, Len(s))) THEN str_rstrip(SubSeq(s, 1, Len(s) - 1))
    ELSE s

str_strip(s) == str_rstrip(str_lstrip(s))

\* str.replace(old, new) for a one-character old
RECURSIVE str_replace(_, _, _)
str_replace(s, old, new) ==
    IF s = "" THEN ""
    ELSE (IF CharAt(s, 1) = old THEN new ELSE CharAt(s, 1))
         \o str_replace(SubSeq(s, 2, Len(s)), old, new)

\* the Python expression  sub in s
str_in(sub, s) ==
    \E i \in 0..(Len(s) - Len(sub)) : SubSeq(s, i + 1, i + Len(sub)) = sub

\* lexicographic order of Python strings
RECURSIVE str_lt(_, _)
str_lt(a, b) ==
    IF b = "" THEN FALSE
    ELSE IF a = "" THEN TRUE
    ELSE IF CharAt(a, 1) = CharAt(b, 1)
         THEN str_lt(SubSeq(a, 2, Len(a)), SubSeq(b, 2, Len(b)))
    ELSE ord(CharAt(a, 1)) < ord(CharAt(b, 1))

RECURSIVE skip_nonword(_)
skip_nonword(s) ==
    IF s = "" THEN ""
    ELSE IF isword(CharAt(s, 1)) THEN s
    ELSE skip_nonword(SubSeq(s, 2, Len(s)))

\* re.split(r'\W+', s), continued after the piece cur has been read
RECURSIVE split_from(_, _)
split_from(s, cur) ==
    IF s = "" THEN <<cur>>
    ELSE IF isword(CharAt(s, 1))
         THEN split_from(SubSeq(s, 2, Len(s)), cur \o CharAt(s, 1))
    ELSE <<cur>> \o split_from(skip_nonword(s), "")

\* Series.str.split(r'\W+') on one cell
str_split(s) == split_from(s, "")

\* sorted(list): insertion of each element of the list into a sorted list
RECURSIVE insert_sorted(_, _)
insert_sorted(x, l) ==
    IF l = <<>> THEN <<x>>
    ELSE IF str_lt(x, Head(l)) THEN <<x>> \o l
    ELSE <<Head(l)>> \o insert_sorted(x, Tail(l))

RECURSIVE sorted_by_insertion(_)
sorted_by_insertion(l) ==
    IF l = <<>> THEN <<>>
    ELSE insert_sorted(Head(l), sorted_by_insertion(Tail(l)))

\* a plausible slip: the list of the set is used as it comes
unsorted(l) == l

sorted(l) == sorted_by_insertion(l)

\* list(a_set): a set of strings is iterated in an order that depends on the
\* process's hash seed; every order is possible
RECURSIVE list_of_set(_)
list_of_set(S) ==
    IF S = {} THEN {<<>>}
    ELSE UNION {{<<x>> \o l : l \in list_of_set(S \ {x})} : x \in S}

(***************************************************************************)
(* pandas: cells, Series and DataFrames                                    *)
(*                                                                         *)
(* A cell is a record: na for a missing value (an empty spreadsheet cell   *)
(* is read as NaN), s for its text.  A column label is a str, an int (a    *)
(* header cell that holds a number is read as a number) or NaN.  A         *)
(* DataFrame is its column labels and its rows; labels need not be unique. *)
(* DataFrames live in a heap (frames) and are passed by reference, as      *)
(* Python objects are.                                                     *)
(***************************************************************************)

NaN == [na |-> TRUE, s |-> ""]

text(t) == [na |-> FALSE, s |-> t]

\* a column label that is a str
str_label(t) == [type |-> "str", s |-> t, n |-> 0]

\* a column label that is an int
int_label(n) == [type |-> "int", s |-> "", n |-> n]

\* the label an Index.str method gives in place of a label that is not a str
nan_label == [type |-> "float", s |-> "", n |-> 0]

is_str(c) == c.type = "str"

\* Series.fillna("") on one cell
fillna(c) == IF c.na THEN text("") ELSE c

\* the positions of the columns labelled name
positions(frame, name) ==
    {j \in DOMAIN frame.columns : frame.columns[j] = name}

\* the column at position j, as a Series
column_at(frame, j) == [i \in DOMAIN frame.rows |-> frame.rows[i][j]]

\* frame[name] when the label is unique: the column as a Series
column(frame, name) ==
    column_at(frame, CHOOSE j \in positions(frame, name) : TRUE)

\* frame[name] is a DataFrame, not a Series, when the label is repeated;
\* a DataFrame has no .str accessor
is_series(frame, name) == Cardinality(positions(frame, name)) = 1

\* frame[name] = series: every column with that label is replaced, a new
\* label is appended as the last column
setitem(frame, name, series) ==
    IF positions(frame, name) # {}
    THEN [frame EXCEPT !.rows =
            [i \in DOMAIN frame.rows |->
                [j \in DOMAIN frame.columns |->
                    IF frame.columns[j] = name THEN series[i]
                    ELSE frame.rows[i][j]]]]
    ELSE [columns |-> Append(frame.columns, name),
          rows |-> [i \in DOMAIN frame.rows |-> Append(frame.rows[i], series[i])]]

\* a plausible slip: no copy, the caller's frame itself
DataFrame_alias(heap, id) == [frames |-> heap, id |-> id]

\* DataFrame.copy(): a new object in the heap
DataFrame_copy(heap, id) ==
    [frames |-> Append(heap, heap[id]), id |-> Len(heap) + 1]

(***************************************************************************)
(* normalize_columns                                                       *)
(***************************************************************************)

\* a plausible slip: the labels keep their case
normalize_label_keep_case(c) ==
    IF is_str(c) THEN str_label(str_replace(str_strip(c.s), " ", "_"))
    ELSE nan_label

\* .str.strip().str.lower().str.replace(" ", "_") on one label of an Index
\* that has a str accessor: a label that is not a str becomes NaN
normalize_label(c) ==
    IF is_str(c)
    THEN str_label(str_replace(str_lower(str_strip(c.s)), " ", "_"))
    ELSE nan_label

\* df.columns.str raises AttributeError ("Can only use .str accessor with
\* string values") for an Index of numbers: there are labels and none of
\* them is a str.  An Index with no label, or with a str among its labels,
\* has the accessor.
str_accessor_raises(columns) ==
    /\ columns # <<>>
    /\ \A j \in DOMAIN columns : ~is_str(columns[j])

\* assigns the labels of the frame it is given, in place, and returns it;
\* when df.columns.str raises, nothing is assigned
normalize_columns(heap, id) ==
    IF str_accessor_raises(heap[id].columns)
    THEN [frames |-> heap, id |-> id, raised |-> TRUE]
    ELSE [frames |-> [heap EXCEPT ![id].columns =
                        [j \in DOMAIN heap[id].columns |->
                            normalize_label(heap[id].columns[j])]],
          id |-> id, raised |-> FALSE]

(***************************************************************************)
(* count_classifiers                                                       *)
(***************************************************************************)

OUTPUT_COLUMNS ==
    <<"condition", "true_Positive", "false_Positive", "true_Negative",
      "false_Negative", "Sensitivity", "Specificity", "Check",
      "Positive Ground Truth", "Negative Ground Truth", "Ground Truth Check">>

\* the keys of col_map, in insertion order
col_map_keys ==
    <<"true_positive", "false_positive", "true_negative", "false_negative">>

\* the least position of a set of positions
first_of(S) == CHOOSE j \in S : \A h \in S : j <= h

\* next((c for c in df.columns if key in c), None): the position of the
\* label found, 0 for None.  The labels are tried in order, and  key in c
\* raises TypeError for a label c that is NaN: -1 stands for that.
first_match(columns, key) ==
    LET hits == {j \in DOMAIN columns :
                    is_str(columns[j]) /\ str_in(key, columns[j].s)}
        nans == {j \in DOMAIN columns : ~is_str(columns[j])}
    IN  IF nans # {} /\ (hits = {} \/ first_of(nans) < first_of(hits))
        THEN -1
        ELSE IF hits = {} THEN 0
        ELSE first_of(hits)

\* col_map, computed once from the normalized labels
col_map(columns) ==
    [k \in {col_map_keys[n] : n \in DOMAIN col_map_keys} |->
        first_match(columns, k)]

\* building col_map raises: one of its four generators does
col_map_raises(columns) ==
    \E n \in DOMAIN col_map_keys : first_match(columns, col_map_keys[n]) = -1

\* Series.fillna("").astype(str).str.lower()
lowered(series) ==
    [i \in DOMAIN series |-> text(str_lower(fillna(series[i]).s))]

\* a column of empty strings, one per row of the frame
empty_strings(frame) == [i \in DOMAIN frame.rows |-> text("")]

\* one pass of the loop over col_map.items(), for key k mapped to label
\* position v (0 for None): st is the local state (frame, present_cols,
\* warnings, raised)
fill_column(st, labels, k, v) ==
    IF v = 0
    THEN [st EXCEPT !.warnings = Append(@, k),
                    !.frame = setitem(@, str_label(k), empty_strings(@))]
    ELSE IF ~is_series(st.frame, labels[v])
    THEN [st EXCEPT !.raised = TRUE]
    ELSE [st EXCEPT !.frame = setitem(@, str_label(k),
                                      lowered(column(@, labels[v]))),
                    !.present_cols = Append(@, k)]

\* the loop over col_map.items(); labels are the labels col_map was
\* computed from
RECURSIVE fill_columns(_, _, _)
fill_columns(st, labels, keys) ==
    IF keys = <<>> \/ st.raised THEN st
    ELSE fill_columns(
            fill_column(st, labels, Head(keys), col_map(labels)[Head(keys)]),
            labels, Tail(keys))

\* the non-empty pieces of a split cell, stripped
nonempty(parts) == {str_strip(parts[n]) : n \in DOMAIN parts} \ {""}

\* the non-empty tokens of one cell text
tokens(s) == nonempty(str_split(s))

\* a plausible slip: only the first row is tokenized
series_tokens_head(series) ==
    IF series = <<>> THEN {} ELSE tokens(series[1].s)

series_tokens(series) == UNION {tokens(series[i].s) : i \in DOMAIN series}

\* the tokens of one column of the frame
column_tokens(frame, name) == series_tokens(column(frame, str_label(name)))

all_classifiers(frame, present_cols) ==
    UNION {column_tokens(frame, present_cols[n]) : n \in DOMAIN present_cols}

\* a plausible slip: the cell must equal the label
count_matches_exact(series, upper_pat) ==
    Cardinality({i \in DOMAIN series : str_upper(series[i].s) = upper_pat})

\* the places of text s where pat starts
occurrences(pat, s) ==
    {m \in 0..(Len(s) - Len(pat)) : SubSeq(s, m + 1, m + Len(pat)) = pat}

\* a plausible slip: every occurrence of the label is counted
RECURSIVE count_matches_occurrences(_, _)
count_matches_occurrences(series, upper_pat) ==
    IF series = <<>> THEN 0
    ELSE Cardinality(occurrences(upper_pat, str_upper(Head(series).s)))
         + count_matches_occurrences(Tail(series), upper_pat)

\* the rows of a Series whose upper-cased text has the upper-cased pattern
\* as a substring
count_matches(series, upper_pat) ==
    Cardinality({i \in DOMAIN series : str_in(upper_pat, str_upper(series[i].s))})

\* Series.str.contains(cond, case=False, na=False, regex=False).sum()
contains_count(frame, name, cond) ==
    count_matches(column(frame, str_label(name)), str_upper(cond))

result_row(frame, cond) ==
    <<cond,
      contains_count(frame, "true_positive", cond),
      contains_count(frame, "false_positive", cond),
      contains_count(frame, "true_negative", cond),
      contains_count(frame, "false_negative", cond),
      "", "", "", "", "", "">>

result_rows(frame, CLASSIFIERS) ==
    [n \in DOMAIN CLASSIFIERS |-> result_row(frame, CLASSIFIERS[n])]

\* count_classifiers from col_map to the end of the loop over it, on the
\* normalized copy: the local state after it.  col_map is built before the
\* loop, so that an exception in it comes before every warning.
columns_filled(frame) ==
    IF col_map_raises(frame.columns)
    THEN [frame |-> frame, present_cols |-> <<>>,
          warnings |-> <<>>, raised |-> TRUE]
    ELSE fill_columns([frame |-> frame, present_cols |-> <<>>,
                       warnings |-> <<>>, raised |-> FALSE],
                      frame.columns, col_map_keys)

\* count_classifiers up to the end of the loop over col_map: nm is what
\* normalize_columns(df.copy()) gave
normalized_and_filled(nm) ==
    IF nm.raised
    THEN [frame |-> nm.frames[nm.id], present_cols |-> <<>>,
          warnings |-> <<>>, raised |-> TRUE]
    ELSE columns_filled(nm.frames[nm.id])

\* df[col_name].str fails for a col_name that labels several columns
extraction_raises(st) ==
    \E n \in DOMAIN st.present_cols :
        ~is_series(st.frame, str_label(st.present_cols[n]))

\* the lists CLASSIFIERS can be: sorted(list(all_classifiers))
classifier_lists(S) == {sorted(l) : l \in list_of_set(S)}

\* the rest of count_classifiers; heap is the heap as the caller sees it
extract_and_count(st, heap) ==
    IF st.raised \/ extraction_raises(st)
    THEN {[raised |-> TRUE, result_df |-> <<>>,
           warnings |-> st.warnings, frames |-> heap]}
    ELSE {[raised |-> FALSE,
           result_df |-> result_rows(st.frame, CLASSIFIERS),
           warnings |-> st.warnings, frames |-> heap] :
             CLASSIFIERS \in
               UNION {classifier_lists(S) :
                        S \in {all_classifiers(st.frame, st.present_cols)}}}

\* the frames the caller still holds once the call has returned
caller_frames(heap, local, id, frame) ==
    SubSeq([local EXCEPT ![id] = frame], 1, Len(heap))

\* Every way a call count_classifiers(df) can end, df being frame id of the
\* heap: the exception escapes (raised) or result_df is returned.  frames is
\* the heap as the caller sees it afterwards.  (Each local is bound as the
\* one element of a set, which computes it once.)
count_classifiers(heap, id) ==
    UNION {UNION {UNION {UNION {extract_and_count(st, after) :
        after \in {caller_frames(heap, nm.frames, nm.id, st.frame)}} :
        st \in {normalized_and_filled(nm)}} :
        nm \in {normalize_columns(cp.frames, cp.id)}} :
        cp \in {DataFrame_copy(heap, id)}}

(***************************************************************************)
(* write_excel_with_formulas                                               *)
(*                                                                         *)
(* A sheet is its rows of cells.  A cell holds a value or a formula, a     *)
(* number format and an alignment.  A formula is kept as its structure:    *)
(* the cells it refers to, as <<column letter, row number>>.               *)
(***************************************************************************)

ColumnLetters == "ABCDEFGHIJK"

value_cell(v) ==
    [kind |-> "value", v |-> v, number_format |-> "General", alignment |-> ""]

\* a missing value of the DataFrame, written to a sheet
nan_cell ==
    [kind |-> "nan", v |-> "", number_format |-> "General", alignment |-> ""]

formula_cell(f) ==
    [kind |-> "formula", v |-> f, number_format |-> "General", alignment |-> ""]

\* =IFERROR(n/(a+b), 0) on sheet row i
iferror_ratio(n, a, b, i) ==
    [f |-> "IFERROR_DIV", num |-> <<n, i>>, den |-> <<<<a, i>>, <<b, i>>>>,
     value_if_error |-> 0]

\* =SUM(a+b) on sheet row i
sum_of(a, b, i) == [f |-> "SUM", args |-> <<<<a, i>>, <<b, i>>>>]

\* a plausible slip: range(2, len(df) + 1)
formula_range_short(result_df) == 2..Len(result_df)

\* the sheet rows that get formulas: range(2, len(df) + 2)
formula_range(result_df) == 2..(Len(result_df) + 1)

\* the cell of sheet row i, column letter c, after the formulas are written
with_formulas(cell, c, i) ==
    CASE c = "F" -> [formula_cell(iferror_ratio("B", "B", "E", i))
                        EXCEPT !.number_format = "0.00%"]
      [] c = "G" -> [formula_cell(iferror_ratio("D", "D", "C", i))
                        EXCEPT !.number_format = "0.00%"]
      [] c = "H" -> formula_cell(sum_of("B", "C", i))
      [] c = "I" -> formula_cell(sum_of("B", "E", i))
      [] c = "J" -> formula_cell(sum_of("D", "C", i))
      [] c = "K" -> formula_cell(sum_of("I", "J", i))
      [] OTHER -> cell

\* dataframe_to_rows(df, index=False, header=True) for the result table
result_sheet_rows(result_df) ==
    <<[j \in DOMAIN OUTPUT_COLUMNS |-> value_cell(OUTPUT_COLUMNS[j])]>>
    \o [n \in DOMAIN result_df |->
          [j \in DOMAIN result_df[n] |-> value_cell(result_df[n][j])]]

\* dataframe_to_rows(input_df, index=False, header=True); a header cell
\* holds the label as it was read
input_sheet_rows(frame) ==
    <<[j \in DOMAIN frame.columns |-> value_cell(frame.columns[j])]>>
    \o [i \in DOMAIN frame.rows |->
          [j \in DOMAIN frame.rows[i] |->
              IF frame.rows[i][j].na THEN nan_cell
              ELSE value_cell(frame.rows[i][j].s)]]

centered(rows) ==
    [i \in DOMAIN rows |->
        [j \in DOMAIN rows[i] |-> [rows[i][j] EXCEPT !.alignment = "center"]]]

\* the workbook saved to output_path
write_excel_with_formulas(result_df, input_frame) ==
    LET plain == result_sheet_rows(result_df)
        ws == [i \in DOMAIN plain |->
                 [j \in DOMAIN plain[i] |->
                     IF i \in formula_range(result_df)
                     THEN with_formulas(plain[i][j], CharAt(ColumnLetters, j), i)
                     ELSE plain[i][j]]]
    IN  <<[title |-> "Confusion Matrix", rows |-> centered(ws)],
          [title |-> "Input Data",
           rows |-> centered(input_sheet_rows(input_frame))]>>

(***************************************************************************)
(* The spreadsheet's evaluation of a cell, as a fraction <<num, den>>      *)
(***************************************************************************)

cell_at(rows, ref) == rows[ref[2]][IndexIn(ColumnLetters, ref[1])]

RECURSIVE evaluate(_, _)
evaluate(rows, ref) ==
    LET cell == cell_at(rows, ref)
    IN  IF cell.kind = "value" THEN <<cell.v, 1>>
        ELSE IF cell.v.f = "SUM"
        THEN LET a == evaluate(rows, cell.v.args[1])
                 b == evaluate(rows, cell.v.args[2])
             IN  <<a[1] * b[2] + b[1] * a[2], a[2] * b[2]>>
        ELSE LET n == evaluate(rows, cell.v.num)
                 a == evaluate(rows, cell.v.den[1])
                 b == evaluate(rows, cell.v.den[2])
                 d == <<a[1] * b[2] + b[1] * a[2], a[2] * b[2]>>
             IN  IF d[1] = 0 THEN <<cell.v.value_if_error, 1>>
                 ELSE <<n[1] * d[2], n[2] * d[1]>>

(***************************************************************************)
(* Inputs                                                                  *)
(***************************************************************************)

\* the largest number of data rows of an input table
MaxRows == 2

\* the largest number of columns of the tables of SpecHeaders
MaxHeaders == 2

NoTable == [columns |-> <<>>, rows |-> <<>>]

\* a header row of text labels
str_labels(h) == [j \in DOMAIN h |-> str_label(h[j])]

\* Header rows of the tables of Spec.  pandas.read_excel never returns two
\* equal labels (it renames a repeated header), but two labels may become
\* equal once normalized, as in the fourth one.  A header cell that holds a
\* number is read as an int label, as in the last one.
HeaderRows ==
    {str_labels(<<"True Positive", "False Positive">>),
     str_labels(<<"id", " TRUE_POSITIVE ", "false negative text">>),
     str_labels(<<"True Positive", "False Positive", "True Negative",
                  "False Negative">>),
     str_labels(<<"True Positive", "true_positive">>),
     <<str_label("True Positive"), int_label(2020)>>}

\* the cells a table of Spec may hold in column j
CellPool(j) ==
    IF j = 1 THEN {NaN, text("a"), text("Ab, a")}
    ELSE IF j = 2 THEN {NaN, text("b"), text("A b")}
    ELSE IF j = 3 THEN {NaN, text("b c")}
    ELSE {text("a c")}

\* the rows of n cells
RECURSIVE RowsOver(_)
RowsOver(n) ==
    IF n = 0 THEN {<<>>}
    ELSE {Append(r, c) : r \in RowsOver(n - 1), c \in CellPool(n)}

\* the headers of the tables of SpecHeaders
HeaderPool ==
    {str_label(t) :
        t \in {"true_positive", " True Positive ", "TRUE  POSITIVE",
               "False Positive", "false_positive\t", "True Negative",
               "FALSE NEGATIVE", "Notes"}}
    \cup {int_label(2020), int_label(2021)}

\* the rows of n different headers
RECURSIVE HeaderRowsOfLen(_)
HeaderRowsOfLen(n) ==
    IF n = 0 THEN {<<>>}
    ELSE UNION {{Append(h, x) : x \in HeaderPool \ {h[i] : i \in DOMAIN h}} :
                  h \in HeaderRowsOfLen(n - 1)}

HeaderCells == <<text("a"), text("B a"), NaN>>

\* the rows of the tables of SpecHeaders: the cell is fixed by its place,
\* and the first cell of a row is never empty
HeaderTableRows(n, cols) ==
    [i \in 1..n |->
        [j \in 1..cols |->
            IF j = 1 THEN HeaderCells[(i % 2) + 1]
            ELSE HeaderCells[((i + j) % 3) + 1]]]

\* the header rows of the tables of SpecTwice; in the last one every key
\* finds its column before the int label is reached
TwiceHeaderRows ==
    {str_labels(<<"True Positive", "False Positive">>),
     str_labels(<<"True Positive", "true_positive">>),
     <<int_label(2020), int_label(2021)>>,
     str_labels(<<"True Positive", "False Positive", "True Negative",
                  "False Negative">>) \o <<int_label(2020)>>}

TypeOK ==
    /\ pc \in {"main", "exists", "read_excel", "count_classifiers",
               "write_excel", "done", "exit", "raised"}
    /\ exit_code \in {-1, 0, 1}
    /\ df \in 0..Len(frames)
    /\ Len(output_file) <= 1

\* the process before its first step
Started ==
    /\ pc = "main"
    /\ output_file = <<>>
    /\ frames = <<>>
    /\ df = 0
    /\ output_df = <<>>
    /\ warnings = <<>>
    /\ exit_code = -1
    /\ previous_output = <<>>

\* no argument, no file at the path, or a file that cannot be read
NoInput ==
    \/ /\ argv = <<"script.py">>
       /\ input_file = [state |-> "missing", table |-> NoTable]
    \/ /\ argv = <<"script.py", "data.xlsx">>
       /\ input_file \in {[state |-> "missing", table |-> NoTable],
                          [state |-> "corrupt", table |-> NoTable]}

\* the argument names a readable spreadsheet holding table t
InputTable(t) ==
    /\ argv = <<"script.py", "data.xlsx">>
    /\ input_file = [state |-> "ok", table |-> t]

\* the row has a cell that is not empty
has_data(row) == \E j \in DOMAIN row : ~row[j].na

\* A table with one of the given header rows and up to MaxRows rows.  The
\* reader drops the empty rows at the end of a sheet, so that the last row
\* of a table has a cell that is not empty.
InputOver(headerRows) ==
    \E h \in headerRows : \E n \in 0..MaxRows :
        \E rs \in [1..n -> RowsOver(Len(h))] :
            /\ IF n = 0 THEN TRUE ELSE has_data(rs[n])
            /\ InputTable([columns |-> h, rows |-> rs])

Init == Started /\ (NoInput \/ InputOver(HeaderRows))

InitHeaders ==
    /\ Started
    /\ \/ NoInput
       \/ \E c \in 1..MaxHeaders : \E h \in HeaderRowsOfLen(c) :
            \E n \in 0..MaxRows :
                InputTable([columns |-> h, rows |-> HeaderTableRows(n, c)])

InitTwice == Started /\ (NoInput \/ InputOver(TwiceHeaderRows))

(***************************************************************************)
(* main, one action per step                                               *)
(***************************************************************************)

\* sys.exit(1)
sys_exit ==
    /\ pc' = "exit"
    /\ exit_code' = 1

\* len(sys.argv) < 2
MissingArgument ==
    /\ pc = "main"
    /\ Len(argv) < 2
    /\ sys_exit
    /\ UNCHANGED <<argv, input_file, output_file, frames, df, output_df,
                   warnings, previous_output>>

ArgumentGiven ==
    /\ pc = "main"
    /\ ~(Len(argv) < 2)
    /\ pc' = "exists"
    /\ UNCHANGED <<argv, input_file, output_file, frames, df, output_df,
                   warnings, exit_code, previous_output>>

\* not input_path.exists()
FileNotFound ==
    /\ pc = "exists"
    /\ input_file.state = "missing"
    /\ sys_exit
    /\ UNCHANGED <<argv, input_file, output_file, frames, df, output_df,
                   warnings, previous_output>>

FileFound ==
    /\ pc = "exists"
    /\ input_file.state # "missing"
    /\ pc' = "read_excel"
    /\ UNCHANGED <<argv, input_file, output_file, frames, df, output_df,
                   warnings, exit_code, previous_output>>

\* read_excel: pd.read_excel raises
ReadError ==
    /\ pc = "read_excel"
    /\ input_file.state = "corrupt"
    /\ sys_exit
    /\ UNCHANGED <<argv, input_file, output_file, frames, df, output_df,
                   warnings, previous_output>>

\* read_excel: df = pd.read_excel(input_path)
ReadExcel ==
    /\ pc = "read_excel"
    /\ input_file.state = "ok"
    /\ frames' = Append(frames, input_file.table)
    /\ df' = Len(frames) + 1
    /\ pc' = "count_classifiers"
    /\ UNCHANGED <<argv, input_file, output_file, output_df, warnings,
                   exit_code, previous_output>>

\* output_df = count_classifiers(df)
CountClassifiers ==
    /\ pc = "count_classifiers"
    /\ \E r \in count_classifiers(frames, df) :
          /\ ~r.raised
          /\ output_df' = r.result_df
          /\ warnings' = r.warnings
          /\ frames' = r.frames
    /\ pc' = "write_excel"
    /\ UNCHANGED <<argv, input_file, output_file, df, exit_code,
                   previous_output>>

\* count_classifiers(df) raises; the traceback ends the process with exit
\* code 1
CountClassifiersRaises ==
    /\ pc = "count_classifiers"
    /\ \E r \in count_classifiers(frames, df) :
          /\ r.raised
          /\ warnings' = r.warnings
          /\ frames' = r.frames
    /\ pc' = "raised"
    /\ exit_code' = 1
    /\ UNCHANGED <<argv, input_file, output_file, df, output_df,
                   previous_output>>

\* write_excel_with_formulas(output_df, df, output_path), then main returns
WriteExcel ==
    /\ pc = "write_excel"
    /\ output_file' = <<write_excel_with_formulas(output_df, frames[df])>>
    /\ pc' = "done"
    /\ exit_code' = 0
    /\ UNCHANGED <<argv, input_file, frames, df, output_df, warnings,
                   previous_output>>

\* The program is started a second time with the same argument and the same
\* input file; what the first run left (exit code, warnings, output file) is
\* kept in previous_output.  The output file stays on disk.
RunAgain ==
    /\ pc \in {"done", "exit", "raised"}
    /\ previous_output = <<>>
    /\ previous_output' = <<[exit_code |-> exit_code, warnings |-> warnings,
                            output_file |-> output_file]>>
    /\ pc' = "main"
    /\ frames' = <<>>
    /\ df' = 0
    /\ output_df' = <<>>
    /\ warnings' = <<>>
    /\ exit_code' = -1
    /\ UNCHANGED <<argv, input_file, output_file>>

Next ==
    \/ MissingArgument
    \/ ArgumentGiven
    \/ FileNotFound
    \/ FileFound
    \/ ReadError
    \/ ReadExcel
    \/ CountClassifiers
    \/ CountClassifiersRaises
    \/ WriteExcel

NextTwice == Next \/ RunAgain

Spec == Init /\ [][Next]_vars

SpecHeaders == InitHeaders /\ [][Next]_vars

SpecTwice == InitTwice /\ [][NextTwice]_vars

(***************************************************************************)
(* Properties                                                              *)
(***************************************************************************)

\* the table in the input file, as the spreadsheet holds it
source == input_file.table

\* count_classifiers has just returned its result to main
Counted == pc = "write_excel"

\* the header is a text that, normalized, has key k inside it
stands_for(c, k) == is_str(c) /\ str_in(k, normalize_label(c).s)

\* the position of the column that stands for key k in table t: the first
\* header that does (0: none)
key_column(t, k) ==
    LET hits == {j \in DOMAIN t.columns : stands_for(t.columns[j], k)}
    IN  IF hits = {} THEN 0 ELSE first_of(hits)

\* the cell holds a text that has the (lower-case) label inside it
cell_has(c, label) == ~c.na /\ str_in(label, str_lower(c.s))

rows_with_in(t, j, label) ==
    IF j = 0 THEN 0
    ELSE Cardinality({i \in DOMAIN t.rows : cell_has(t.rows[i][j], label)})

\* the number of rows of t whose cell for key k contains the label
rows_with(t, k, label) == rows_with_in(t, key_column(t, k), label)

\* C1: a label that no false-positive, true-negative or false-negative cell
\* contains has, in its result row, the number of rows whose true-positive
\* cell contains it as true-positive count, and 0 for the three other counts.
C1_OnlyTruePositive ==
    Counted =>
      \A n \in DOMAIN output_df :
        (/\ rows_with(source, "false_positive", output_df[n][1]) = 0
         /\ rows_with(source, "true_negative", output_df[n][1]) = 0
         /\ rows_with(source, "false_negative", output_df[n][1]) = 0)
        => /\ output_df[n][2] = rows_with(source, "true_positive", output_df[n][1])
           /\ output_df[n][3] = 0
           /\ output_df[n][4] = 0
           /\ output_df[n][5] = 0

\* C1 witness: a label in two true-positive cells and in no other column,
\* beside other labels
C1_Witness ==
    /\ Counted
    /\ Len(output_df) >= 3
    /\ \E n \in DOMAIN output_df :
         /\ rows_with(source, "false_positive", output_df[n][1]) = 0
         /\ rows_with(source, "true_negative", output_df[n][1]) = 0
         /\ rows_with(source, "false_negative", output_df[n][1]) = 0
         /\ rows_with(source, "true_positive", output_df[n][1]) = 2
         /\ output_df[n][2] = 2

\* C2: a run ends with exit code 1, before count_classifiers and with no
\* output file, when the argument is missing, the file is missing or the read
\* fails; any other run reaches the write step and ends with exit code 0.
C2_ExitCodes ==
    /\ (Len(argv) < 2 \/ input_file.state # "ok") =>
          /\ pc \notin {"count_classifiers", "write_excel", "done", "raised"}
          /\ output_df = <<>>
          /\ output_file = <<>>
          /\ exit_code # 0
          /\ (pc = "exit" => exit_code = 1)
    /\ (Len(argv) >= 2 /\ input_file.state = "ok") =>
          /\ pc \notin {"exit", "raised"}
          /\ exit_code # 1
          /\ (pc = "done" => exit_code = 0 /\ output_file # <<>>)

\* table t with its rows in the order p (a list of the row numbers)
permuted(t, p) == [t EXCEPT !.rows = [i \in DOMAIN p |-> t.rows[p[i]]]]

\* the labels of a result table
labels_of(result_df) == {result_df[n][1] : n \in DOMAIN result_df}

\* C6: the labels, and the result rows with their counts, are the same for
\* every order of the input rows.
C6_RowOrderInvariant ==
    Counted =>
      \A p \in list_of_set(DOMAIN source.rows) :
        \A r \in count_classifiers(<<permuted(source, p)>>, 1) :
          /\ ~r.raised
          /\ labels_of(r.result_df) = labels_of(output_df)
          /\ r.result_df = output_df

\* C6 witness: two different rows, which a permutation exchanges, and
\* several labels
C6_Witness ==
    /\ Counted
    /\ Len(source.rows) >= 2
    /\ source.rows[1] # source.rows[2]
    /\ Len(output_df) >= 3

\* the result of the spreadsheet's IFERROR(a/(a+b), 0), as a fraction
guarded_ratio(a, b) == IF a + b = 0 THEN <<0, 1>> ELSE <<a, a + b>>

\* the "Confusion Matrix" sheet of the written workbook
matrix_sheet == output_file[1][1].rows

\* the "Input Data" sheet of the written workbook
input_sheet == output_file[1][2].rows

has_formula(row) == \E j \in DOMAIN row : row[j].kind = "formula"

\* C8: on every result row the sensitivity formula evaluates to 0 when TP
\* and FN are both 0 and to TP/(TP+FN) otherwise, the specificity formula to
\* 0 when TN and FP are both 0 and to TN/(TN+FP) otherwise; the formulas of a
\* row refer to that row, and exactly sheet rows 2 to number of labels + 1
\* hold formulas.
C8_GuardedRatios ==
    pc = "done" =>
      /\ Len(matrix_sheet) = Len(output_df) + 1
      /\ \A i \in DOMAIN matrix_sheet :
           has_formula(matrix_sheet[i]) <=> i \in 2..(Len(output_df) + 1)
      /\ \A i \in 2..(Len(output_df) + 1) :
           /\ matrix_sheet[i][6].kind = "formula"
           /\ matrix_sheet[i][7].kind = "formula"
           /\ \A j \in 6..11 :
                /\ matrix_sheet[i][j].kind = "formula"
                /\ \A ref \in IF matrix_sheet[i][j].v.f = "SUM"
                              THEN {matrix_sheet[i][j].v.args[1],
                                    matrix_sheet[i][j].v.args[2]}
                              ELSE {matrix_sheet[i][j].v.num,
                                    matrix_sheet[i][j].v.den[1],
                                    matrix_sheet[i][j].v.den[2]} :
                     ref[2] = i
           /\ evaluate(matrix_sheet, <<"F", i>>)
                = guarded_ratio(output_df[i - 1][2], output_df[i - 1][5])
           /\ evaluate(matrix_sheet, <<"G", i>>)
                = guarded_ratio(output_df[i - 1][4], output_df[i - 1][3])

\* C8 witness: a written sheet with a row whose TP and FN are both 0 and a
\* row whose TP and FN are both positive
C8_Witness ==
    /\ pc = "done"
    /\ \E n \in DOMAIN output_df : output_df[n][2] = 0 /\ output_df[n][5] = 0
    /\ \E n \in DOMAIN output_df : output_df[n][2] > 0 /\ output_df[n][5] > 0
    /\ \E n \in DOMAIN output_df : output_df[n][4] > 0 /\ output_df[n][3] > 0

\* the sheet rows are the header row and the cells of table t, unchanged
verbatim(sheet, t) ==
    /\ Len(sheet) = Len(t.rows) + 1
    /\ Len(sheet[1]) = Len(t.columns)
    /\ \A j \in DOMAIN t.columns :
         sheet[1][j].kind = "value" /\ sheet[1][j].v = t.columns[j]
    /\ \A i \in DOMAIN t.rows :
         /\ Len(sheet[i + 1]) = Len(t.rows[i])
         /\ \A j \in DOMAIN t.rows[i] :
              IF t.rows[i][j].na THEN sheet[i + 1][j].kind = "nan"
              ELSE /\ sheet[i + 1][j].kind = "value"
                   /\ sheet[i + 1][j].v = t.rows[i][j].s

\* C9: count_classifiers leaves the table main read unchanged (headers as
\* read, cells, no added column), and the "Input Data" sheet is that table.
C9_InputUnchanged ==
    /\ pc \in {"write_excel", "done", "raised"} => frames[df] = source
    /\ pc = "done" => verbatim(input_sheet, source)

\* C9 witness: the output is written for a table with rows, with a header
\* that normalization changes and an expected column that is missing
C9_Witness ==
    /\ pc = "done"
    /\ Len(source.rows) >= 1
    /\ warnings # <<>>
    /\ \E j \in DOMAIN source.columns :
         normalize_label(source.columns[j]) # source.columns[j]
    /\ Len(output_df) >= 1

\* places i..j of text s hold a maximal run of word characters
is_run(s, i, j) ==
    /\ \A m \in i..j : isword(CharAt(s, m))
    /\ (i = 1 \/ ~isword(CharAt(s, i - 1)))
    /\ (j = Len(s) \/ ~isword(CharAt(s, j + 1)))

\* the maximal runs of word characters of the text s
runs_of(s) ==
    {SubSeq(s, i, j) : <<i, j>> \in {x \in (1..Len(s)) \X (1..Len(s)) :
                                        x[1] <= x[2] /\ is_run(s, x[1], x[2])}}

\* the tokens of a cell: the runs of its lower-cased text
cell_labels(c) == UNION {runs_of(s) : s \in {str_lower(c.s)}}

\* the labels of table t: the tokens of the cells of its four key columns
labels_in(t) ==
    UNION {cell_labels(t.rows[i][j]) :
             i \in DOMAIN t.rows,
             j \in {key_column(t, k) : k \in {col_map_keys[n] : n \in DOMAIN col_map_keys}}
                   \ {0}}

\* C10: the result table has one row per label of the table, in strictly
\* ascending order; every count is between 0 and the number of input rows,
\* and every row has a count of at least 1.
C10_ResultRows ==
    Counted =>
      /\ \A L \in {labels_in(source)} :
           labels_of(output_df) = L /\ Len(output_df) = Cardinality(L)
      /\ \A n \in 1..(Len(output_df) - 1) :
           str_lt(output_df[n][1], output_df[n + 1][1])
      /\ \A n \in DOMAIN output_df :
           /\ \A j \in 2..5 :
                output_df[n][j] >= 0 /\ output_df[n][j] <= Len(source.rows)
           /\ \E j \in 2..5 : output_df[n][j] >= 1

\* C10 witness: three labels or more, one of them twice in one cell
C10_Witness ==
    /\ Counted
    /\ Len(output_df) >= 3
    /\ \E n \in DOMAIN output_df : output_df[n][2] = Len(source.rows)
    /\ \E i \in DOMAIN source.rows :
         /\ key_column(source, "true_positive") = 1
         /\ source.rows[i][1] = text("Ab, a")

key_set == {col_map_keys[n] : n \in DOMAIN col_map_keys}

\* no header of table t stands for any of the four keys
no_match(t) == \A k \in key_set : key_column(t, k) = 0

\* C3: when no header matches any of the four expected columns,
\* count_classifiers warns four times, once per column, and returns a table
\* with no rows, whatever the rows of the input; the run goes on to write
\* the output and ends with exit code 0.
C3_NoExpectedColumn ==
    (Len(argv) >= 2 /\ input_file.state = "ok" /\ no_match(source)) =>
      /\ pc \notin {"exit", "raised"}
      /\ pc \in {"write_excel", "done"} =>
           /\ warnings = col_map_keys
           /\ output_df = <<>>
      /\ pc = "done" =>
           /\ exit_code = 0
           /\ Len(matrix_sheet) = 1
           /\ verbatim(input_sheet, source)

\* table t with one more column labelled k, all its cells empty
with_empty_column(t, k) ==
    [columns |-> Append(t.columns, str_label(k)),
     rows |-> [i \in DOMAIN t.rows |-> Append(t.rows[i], NaN)]]

\* the place of key k's count in a result row
count_index(k) == 1 + CHOOSE n \in DOMAIN col_map_keys : col_map_keys[n] = k

\* C4: when an expected column is missing the run does not fail:
\* count_classifiers warns once for it, every label's count for it is 0, and
\* the labels and counts are those of the same table with that column
\* present and all its cells empty.
C4_MissingColumn ==
    pc \in {"write_excel", "raised"} =>
      \A k \in key_set :
        key_column(source, k) = 0 =>
          /\ pc # "raised"
          /\ Cardinality({n \in DOMAIN warnings : warnings[n] = k}) = 1
          /\ \A n \in DOMAIN output_df : output_df[n][count_index(k)] = 0
          /\ \A r \in count_classifiers(<<with_empty_column(source, k)>>, 1) :
               ~r.raised /\ r.result_df = output_df

\* lower case, no leading or trailing whitespace, and every run of
\* whitespace inside as one underscore
RECURSIVE squeeze(_)
squeeze(s) ==
    IF s = "" THEN ""
    ELSE IF isspace(CharAt(s, 1))
         THEN "_" \o squeeze(str_lstrip(s))
    ELSE lower_char(CharAt(s, 1)) \o squeeze(SubSeq(s, 2, Len(s)))

\* the two headers differ only in letter case and in whitespace
differ_in_case_and_whitespace(a, b) ==
    IF is_str(a) /\ is_str(b)
    THEN squeeze(str_strip(a.s)) = squeeze(str_strip(b.s))
    ELSE a = b

\* the two headers differ only in letter case, in leading or trailing
\* whitespace, and in a space where the other has an underscore
differ_in_case_and_single_spaces(a, b) ==
    IF is_str(a) /\ is_str(b)
    THEN /\ Len(str_strip(a.s)) = Len(str_strip(b.s))
         /\ \A i \in 1..Len(str_strip(a.s)) :
              \/ lower_char(CharAt(str_strip(a.s), i))
                   = lower_char(CharAt(str_strip(b.s), i))
              \/ {CharAt(str_strip(a.s), i), CharAt(str_strip(b.s), i)}
                   \subseteq {" ", "_"}
    ELSE a = b

\* table t under the header row h gives what the run gave: the same columns
\* stand for the four keys, and count_classifiers ends the same way
same_outcome(t, h) ==
    /\ \A k \in key_set : key_column([t EXCEPT !.columns = h], k) = key_column(t, k)
    /\ \A r \in count_classifiers(<<[t EXCEPT !.columns = h]>>, 1) :
         /\ r.raised <=> pc = "raised"
         /\ r.result_df = output_df
         /\ r.warnings = warnings

\* C5 as claimed: header rows that differ only in letter case and in
\* whitespace (leading, trailing or between words) select the same columns
\* and give the same result table.
C5_AnyWhitespace ==
    pc \in {"write_excel", "raised"} =>
      \A h \in HeaderRowsOfLen(Len(source.columns)) :
        (\A j \in DOMAIN h : differ_in_case_and_whitespace(source.columns[j], h[j]))
        => same_outcome(source, h)

\* C5 as amended: header rows that differ only in letter case, in leading or
\* trailing whitespace, and in single spaces standing for underscores select
\* the same columns and give the same result table.
C5_CaseAndSingleSpaces ==
    pc \in {"write_excel", "raised"} =>
      \A h \in HeaderRowsOfLen(Len(source.columns)) :
        (\A j \in DOMAIN h : differ_in_case_and_single_spaces(source.columns[j], h[j]))
        => same_outcome(source, h)

\* C5 witness: a table whose true-positive header has capitals and spaces,
\* with labels counted, and another spelling of that header to compare with
C5_Witness ==
    /\ Counted
    /\ Len(output_df) >= 1
    /\ \E j \in DOMAIN source.columns :
         /\ source.columns[j] = str_label(" True Positive ")
         /\ key_column(source, "true_positive") = j
    /\ \E h \in HeaderRowsOfLen(Len(source.columns)) :
         /\ h # source.columns
         /\ \A j \in DOMAIN h :
              differ_in_case_and_single_spaces(source.columns[j], h[j])

\* what a finished run leaves behind
outcome ==
    [exit_code |-> exit_code, warnings |-> warnings, output_file |-> output_file]

\* C7: a second run on the same input ends as the first did: same exit
\* code, same warnings, same output file (labels in the same order, same
\* counts, same formulas, same "Input Data" sheet), whatever order the set
\* of labels is iterated in.
C7_SameOutputTwice ==
    (previous_output # <<>> /\ pc \in {"done", "exit", "raised"}) =>
      previous_output[1] = outcome

\* C7 witness: a second run has written a sheet of three labels or more
C7_Witness ==
    /\ previous_output # <<>>
    /\ pc = "done"
    /\ Len(output_df) >= 3
    /\ previous_output[1].output_file # <<>>

====
